---- MODULE Spec2Model ----
(***************************************************************************)
(* Video-to-transcript extraction pipeline of maxie-AI/evt.                *)
(*                                                                         *)
(* The model follows the request handlers of the repository:               *)
(*   - the Express route POST /api/extract/guest (api/routes/extract.ts),  *)
(*   - the Supabase Edge Function extract-guest,                           *)
(*   - direct calls of the exported processGuestVideo and processVideo     *)
(*     (api/utils/videoProcessor.ts),                                      *)
(* together with the orchestrator functions they call (extractVideoInfo,   *)
(* extractTranscript), the audio extractor, the transcription service, the *)
(* guest_usage table and the SQL function check_guest_usage.               *)
(*                                                                         *)
(* Every await of a handler is a scheduling point: one action models the   *)
(* code that runs between two awaits.  Several requests are in flight at   *)
(* once (run[r]); they share the guest_usage table, the set of temporary   *)
(* files and the clock.  Each deployment has its own specification:        *)
(* SpecPipeline (the library called directly), SpecExpress (the Express    *)
(* route) and SpecEdge (the Edge Function).  Further specifications cover  *)
(* the authenticated handlers (SpecExpressVideo, SpecEdgeVideo), a         *)
(* downloader that may never answer (SpecPipelineLive), and the functions  *)
(* called on their own: URL resolution (SpecResolver), transcribeAudio     *)
(* (SpecTranscribe), the srt export (SpecExport), the audio download       *)
(* (SpecAcquire), the guest truncation of segments (SpecTruncate), the     *)
(* progress streams (SpecProgress), the quota functions (SpecQuota), the   *)
(* callers of the backend (SpecClient), the export job (SpecExportJob)     *)
(* and guest runs alone (SpecGuestPipeline).                               *)
(***************************************************************************)
EXTENDS Integers, Sequences, FiniteSets, TLC

VARIABLES now, guest_usage, files, run, account, progressStreams

vars == <<now, guest_usage, files, run, account, progressStreams>>

(***************************************************************************)
(* Bounds of the model.                                                    *)
(***************************************************************************)
MaxRuns == 2
MaxTime == 2

\* Requests of the signed-in user that pass the limit check on one day.
MaxPassed == 6

Runs == 1..MaxRuns

\* Length of a calendar day in clock ticks (the clock is coarse).
TicksPerDay == 2

Today(t) == t \div TicksPerDay

Days == 0..Today(MaxTime)

\* CURRENT_DATE + INTERVAL '1 day': the instant the daily counter resets.
NextMidnight(t) == (Today(t) + 1) * TicksPerDay

(***************************************************************************)
(* Program constants.                                                      *)
(***************************************************************************)
RouteGuestCap == 60
GuestMaxDuration == 600
PlaceholderDuration == 300
FallbackSegmentEnd == 30
CheckDailyLimit == 100
EdgeDailyLimit == 3
\* daily_limit of increment_guest_usage, which no migration replaces.
IncrementDailyLimit == 1
EdgeDurationCap == 60
EdgeFallbackDuration == 120

\* Daily limits of the authenticated routes.
FreeDailyLimit == 5
ProDailyLimit == 100

NoRow == -1

\* options.maxDuration left undefined.
NoMaxDuration == -1
None == [none |-> TRUE]

\* True durations of the submitted videos (seconds).
Durations == {50, 700}

(***************************************************************************)
(* URLs.  A URL is a sample string described by what `new URL(url)` and    *)
(* the substring tests of the code see in it.                              *)
(***************************************************************************)
UrlSamples ==
  { [id |-> "yt_watch",   parses |-> TRUE,  protocol |-> "https:", host |-> <<"www", "youtube", "com">>,
     path |-> <<"watch">>, hasV |-> TRUE,  v |-> "dQw4w9WgXcQ"],
    [id |-> "yt_short",   parses |-> TRUE,  protocol |-> "https:", host |-> <<"youtu", "be">>,
     path |-> <<"dQw4w9WgXcQ">>, hasV |-> FALSE, v |-> ""],
    [id |-> "yt_embed",   parses |-> TRUE,  protocol |-> "https:", host |-> <<"www", "youtube", "com">>,
     path |-> <<"embed", "dQw4w9WgXcQ">>, hasV |-> FALSE, v |-> ""],
    [id |-> "yt_nov",     parses |-> TRUE,  protocol |-> "https:", host |-> <<"www", "youtube", "com">>,
     path |-> <<"watch">>, hasV |-> FALSE, v |-> ""],
    [id |-> "bili_bv",    parses |-> TRUE,  protocol |-> "https:", host |-> <<"www", "bilibili", "com">>,
     path |-> <<"video", "BV1xx411c7mD">>, hasV |-> FALSE, v |-> ""],
    [id |-> "bili_av",    parses |-> TRUE,  protocol |-> "https:", host |-> <<"www", "bilibili", "com">>,
     path |-> <<"video", "av123456">>, hasV |-> FALSE, v |-> ""],
    [id |-> "rb_explore", parses |-> TRUE,  protocol |-> "https:", host |-> <<"www", "xiaohongshu", "com">>,
     path |-> <<"explore", "abc123def456">>, hasV |-> FALSE, v |-> ""],
    [id |-> "rb_short",   parses |-> TRUE,  protocol |-> "https:", host |-> <<"xhslink", "com">>,
     path |-> <<"xyz789">>, hasV |-> FALSE, v |-> ""],
    [id |-> "other",      parses |-> TRUE,  protocol |-> "https:", host |-> <<"www", "example", "com">>,
     path |-> <<"video">>, hasV |-> FALSE, v |-> ""],
    [id |-> "lookalike",  parses |-> TRUE,  protocol |-> "https:", host |-> <<"youtu", "be", "example", "com">>,
     path |-> <<"x">>, hasV |-> FALSE, v |-> ""],
    [id |-> "ftp_yt",     parses |-> TRUE,  protocol |-> "ftp:",   host |-> <<"www", "youtube", "com">>,
     path |-> <<"watch">>, hasV |-> TRUE,  v |-> "dQw4w9WgXcQ"],
    [id |-> "garbage",    parses |-> FALSE, protocol |-> "",       host |-> << >>,
     path |-> << >>, hasV |-> FALSE, v |-> ""],
    [id |-> "empty",      parses |-> FALSE, protocol |-> "",       host |-> << >>,
     path |-> << >>, hasV |-> FALSE, v |-> ""] }

Urls == { u.id : u \in UrlSamples }

UrlOf(id) == CHOOSE u \in UrlSamples : u.id = id

\* String.prototype.includes on a dotted name: needle occurs in h as a
\* run of consecutive labels.
Includes(h, needle) ==
  \E i \in 1..(Len(h) - Len(needle) + 1) : SubSeq(h, i, i + Len(needle) - 1) = needle

\* hostname.includes('youtube.com') / hostname.includes('youtu.be')
HostIncludesYoutubeCom(u) == Includes(u.host, <<"youtube", "com">>)

HostIncludesYoutuBe(u) == Includes(u.host, <<"youtu", "be">>)

\* detectPlatform: every branch returns 'youtube'.
detectPlatform(id) == "youtube"

\* validateVideoUrl: the error text, or "" when the URL is accepted.
validateVideoUrl(id) ==
  LET u == UrlOf(id) IN
  IF id = "empty" THEN "URL is required"
  ELSE IF ~u.parses THEN "Invalid URL format"
  ELSE IF u.protocol \notin {"http:", "https:"} THEN "URL must use HTTP or HTTPS protocol"
  ELSE IF detectPlatform(id) = "youtube"
       THEN IF (HostIncludesYoutubeCom(u) /\ u.hasV) \/ HostIncludesYoutuBe(u)
            THEN "" ELSE "Invalid YouTube URL format"
       ELSE "Unsupported video platform"

isValidVideoUrl(id) == validateVideoUrl(id) = ""

\* extractVideoId: the id as a sequence of text pieces (empty when the code
\* returns '').  Only the youtube branch can be taken.
extractVideoId(id) ==
  LET u == UrlOf(id) IN
  IF ~u.parses THEN <<id>>
  ELSE IF detectPlatform(id) = "youtube"
       THEN IF HostIncludesYoutuBe(u) THEN u.path
            ELSE IF u.v = "" THEN << >> ELSE <<u.v>>
       ELSE <<id>>

\* Strings of the samples that match [a-zA-Z0-9_-]{11}, BV[a-zA-Z0-9]{10}|av\d+
\* and [a-zA-Z0-9]+ .
YoutubeIdStrings == {"dQw4w9WgXcQ"}

BilibiliIdStrings == {"BV1xx411c7mD", "av123456"}

AlnumStrings == {"dQw4w9WgXcQ", "BV1xx411c7mD", "av123456", "abc123def456", "xyz789",
                 "watch", "embed", "video", "explore", "x"}

\* (www\.)?name
OptWww(host, name) == host = name \/ host = <<"www">> \o name

\* PLATFORM_PATTERNS: the platform whose pattern list the URL matches, or "none".
PLATFORM_PATTERNS(id) ==
  LET u == UrlOf(id)
      n == Len(u.path)
  IN IF ~u.parses \/ u.protocol \notin {"http:", "https:"} THEN "none"
     ELSE IF \/ /\ OptWww(u.host, <<"youtube", "com">>)
                /\ u.path = <<"watch">> /\ u.v \in YoutubeIdStrings
             \/ /\ OptWww(u.host, <<"youtu", "be">>)
                /\ n >= 1 /\ u.path[1] \in YoutubeIdStrings
             \/ /\ OptWww(u.host, <<"youtube", "com">>)
                /\ n >= 2 /\ u.path[1] = "embed" /\ u.path[2] \in YoutubeIdStrings
       THEN "youtube"
     ELSE IF /\ OptWww(u.host, <<"bilibili", "com">>)
             /\ n >= 2 /\ u.path[1] = "video" /\ u.path[2] \in BilibiliIdStrings
       THEN "bilibili"
     ELSE IF \/ /\ OptWww(u.host, <<"xiaohongshu", "com">>)
                /\ n >= 2 /\ u.path[1] = "explore" /\ u.path[2] \in AlnumStrings
             \/ /\ OptWww(u.host, <<"xhslink", "com">>)
                /\ n >= 1 /\ u.path[1] \in AlnumStrings
       THEN "redbook"
     ELSE "none"

(***************************************************************************)
(* Transcripts and errors.                                                 *)
(***************************************************************************)
Seg(s, e, t) == [start |-> s, end |-> e, text |-> t]

\* What the speech-to-text engine may answer: its segments (or none) and text.
EngineAnswers ==
  { [text |-> <<"t1", "t2", "t3">>,
     segments |-> << Seg(0, 20, <<"t1">>), Seg(20, 40, <<"t2">>), Seg(40, 50, <<"t3">>) >>,
     hasSegments |-> TRUE],
    [text |-> <<"t1">>, segments |-> << >>, hasSegments |-> FALSE] }

\* Errors raised by the engine call, as the messages the code inspects.
EngineErrors == {"Incorrect API key provided", "Connection error"}

AcquireErrors == {"yt-dlp process exited with code 1"}

NotAvailableMsg == "Audio extraction not available in this environment"

FileTooLargeMsg == "File size exceeds OpenAI's 25MB limit"

FileNotFoundMsg == "Audio file not found"

UnsupportedFormatMsg == "Unsupported audio format"

\* The extensions transcribeAudio accepts.
supportedFormats == {".mp3", ".mp4", ".mpeg", ".mpga", ".m4a", ".wav", ".webm"}

\* The checks transcribeAudio makes before it opens the file: the message of
\* the error it throws, or "" when the file passes.
PrecheckError(audio) ==
  IF ~audio.exists THEN FileNotFoundMsg
  ELSE IF audio.tooLarge THEN FileTooLargeMsg
  ELSE IF audio.ext \notin supportedFormats THEN UnsupportedFormatMsg
  ELSE ""

DurationMsg == "Video duration exceeds guest limit of 600s"

CallbackTypeError == "progressCallback is not a function"

VideoInfoTypeError == "Cannot read properties of undefined"

\* The catch block of transcribeAudio: message.includes(...) translations.
TranslateTranscriptionError(msg) ==
  IF msg = "Incorrect API key provided"
    THEN "OpenAI API key is invalid or missing. Please check your configuration."
  ELSE IF msg = "You exceeded your current quota"
    THEN "OpenAI API quota exceeded. Please check your usage limits."
  ELSE IF msg = "rate limit reached"
    THEN "OpenAI API rate limit exceeded. Please try again later."
  ELSE msg

\* A fallback text that does not quote the error.
FallbackText_NoMessage(msg) ==
  <<"Transcript extraction failed: ", "", ". This is a mock transcript for demonstration purposes.">>

\* The catch block of extractTranscript: the fallback transcript.
FallbackText(msg) ==
  <<"Transcript extraction failed: ", msg, ". This is a mock transcript for demonstration purposes.">>

FallbackTranscript(msg) ==
  [text |-> FallbackText(msg),
   segments |-> << Seg(0, FallbackSegmentEnd, FallbackText(msg)) >>,
   fallback |-> TRUE]

\* The value extractTranscript returns after a successful transcription.
OkTranscript(ans) ==
  [text |-> ans.text,
   segments |-> IF ans.hasSegments THEN ans.segments ELSE << >>,
   fallback |-> FALSE]

(***************************************************************************)
(* Requests.                                                               *)
(***************************************************************************)
Kinds == {"express_guest", "express_video", "edge_guest", "edge_video", "lib_guest", "lib_video",
          "resolve", "transcribe", "export", "acquire", "truncate",
          "stream", "quota", "client", "export_job"}

NoResp == [code |-> 0, kind |-> "none", error |-> "", remaining |-> -1, reset |-> -1,
           duration |-> -1, limit |-> -1, platform |-> "", videoId |-> << >>]

IdleRun ==
  [kind |-> "idle", pc |-> "idle", url |-> "empty", cb |-> "none", dur |-> 0,
   day |-> 0, usage |-> None, info |-> None, audio |-> None, answer |-> None,
   err |-> "", transcript |-> None, extraction |-> None, resp |-> NoResp,
   nProbe |-> 0, nAcquireCall |-> 0, nAcquired |-> 0, nRelease |-> 0, nEngine |-> 0,
   nQuotaRead |-> 0, nQuotaInc |-> 0, variant |-> 0, maxDuration |-> NoMaxDuration,
   maxDuration2 |-> NoMaxDuration, exporter |-> "", output |-> << >>, sessionId |-> "",
   caller |-> "", endpoint |-> "", format |-> "", job |-> "none"]

\* isGuest of extractTranscript: set by processGuestVideo, cleared by processVideo.
IsGuestRun(rec) == rec.kind \in {"express_guest", "lib_guest"}

ErrorResp(code, msg) == [NoResp EXCEPT !.code = code, !.kind = "error", !.error = msg]

IdleRuns == [r \in Runs |-> IdleRun]

\* Session ids of the progress streams.
SessionIds == {"s1", "s2"}

\* No response registered under a session id.
NoStream == 0

\* const progressStreams = new Map<string, Response>()
NoStreams == [sid \in SessionIds |-> NoStream]

\* The signed-in user of the authenticated routes: the subscription tier,
\* the rows of the extractions table created for the user on each day, and
\* the number of requests that passed the limit check on each day.
NoAccount == [tier |-> "free", rows |-> [d \in Days |-> 0], passed |-> [d \in Days |-> 0]]

Set(r, rec) == run' = [run EXCEPT ![r] = rec]

(***************************************************************************)
(* How a handler ends.                                                     *)
(***************************************************************************)
\* An exception that reaches the caller of the orchestrator: the Express
\* routes answer 500 with the message, a direct caller sees the rejection.
Throw(rec, msg) ==
  IF rec.kind \in {"lib_guest", "lib_video", "transcribe", "acquire"}
    THEN [rec EXCEPT !.pc = "done", !.resp = [NoResp EXCEPT !.kind = "throw", !.error = msg]]
    ELSE [rec EXCEPT !.pc = "done", !.resp = ErrorResp(500, msg)]

\* The fields of the object processGuestVideo and processVideo return.
ResultFields == {"metadata", "transcript"}

\* A return that applies the route's duration test to the probed videoInfo
\* in every deployment, the placeholder included.
Finish_DurationTestOnInfo(rec, tr) ==
  LET done == [rec EXCEPT !.pc = "done", !.transcript = tr] IN
  IF rec.info.duration > RouteGuestCap
    THEN [done EXCEPT !.resp = [ErrorResp(400, "Video duration exceeds 1-minute limit for guest users")
                                  EXCEPT !.duration = rec.info.duration, !.limit = RouteGuestCap]]
    ELSE [done EXCEPT !.resp = [NoResp EXCEPT !.kind = "ok", !.duration = rec.info.duration]]

\* The return of processGuestVideo / processVideo and what the caller does
\* with the result.  The routes read result.videoInfo, which the result does
\* not have: the property access throws and the route answers 500.
Finish(rec, tr) ==
  LET done == [rec EXCEPT !.pc = "done", !.transcript = tr] IN
  IF rec.kind \in {"lib_guest", "lib_video"}
    THEN [done EXCEPT !.resp = [NoResp EXCEPT !.kind = "ok", !.duration = rec.info.duration]]
  ELSE IF "videoInfo" \notin ResultFields
    THEN [done EXCEPT !.resp = ErrorResp(500, VideoInfoTypeError)]
  ELSE IF rec.info.duration > RouteGuestCap
    THEN [done EXCEPT !.resp = [ErrorResp(400, "Video duration exceeds 1-minute limit for guest users")
                                  EXCEPT !.duration = rec.info.duration, !.limit = RouteGuestCap]]
  ELSE [done EXCEPT !.resp = [NoResp EXCEPT !.code = 200, !.kind = "ok"],
                    !.extraction = [status |-> "completed", segments |-> tr.segments]]

\* A cleanup that logs and leaves the file in place.
CleanupFiles_Leak(rec) == files

\* audioResult.cleanup(): delete the temporary file if it exists.
CleanupFiles(rec) == files \ {rec.audio.path}

Released(rec) == [rec EXCEPT !.nRelease = @ + 1]

(***************************************************************************)
(* Direct call of the exported processGuestVideo(videoUrl, cb?).           *)
(***************************************************************************)
LibGuestStart(r) ==
  /\ run[r].pc = "idle"
  /\ \E d \in Durations :
       Set(r, [run[r] EXCEPT !.kind = "lib_guest", !.pc = "pgv_start",
                             !.url = "yt_watch", !.cb = "fn", !.dur = d])
  /\ UNCHANGED <<now, guest_usage, files, account, progressStreams>>

(***************************************************************************)
(* processGuestVideo, up to the call of extractVideoInfo.                  *)
(***************************************************************************)
PGVStart(r) ==
  /\ run[r].pc = "pgv_start"
  /\ IF run[r].cb = "string"
       THEN Set(r, Throw(run[r], CallbackTypeError))
       ELSE Set(r, [run[r] EXCEPT !.pc = "evi"])
  /\ UNCHANGED <<now, guest_usage, files, account, progressStreams>>

(***************************************************************************)
(* extractVideoInfo: the metadata probe, with its placeholder on failure.  *)
(***************************************************************************)
ExtractVideoInfo(r) ==
  /\ run[r].pc = "evi"
  /\ \E ok \in BOOLEAN :
       Set(r, [run[r] EXCEPT
                 !.pc = "et_avail",
                 !.nProbe = @ + 1,
                 !.info = IF ok THEN [duration |-> run[r].dur, placeholder |-> FALSE]
                                ELSE [duration |-> PlaceholderDuration, placeholder |-> TRUE]])
  /\ UNCHANGED <<now, guest_usage, files, account, progressStreams>>

(***************************************************************************)
(* extractTranscript.                                                      *)
(***************************************************************************)
\* audioExtractor.isAvailable()
ETAvailable(r) ==
  /\ run[r].pc = "et_avail"
  /\ \E ok \in BOOLEAN :
       IF ok THEN Set(r, [run[r] EXCEPT !.pc = "et_acquire"])
             ELSE Set(r, Finish(run[r], FallbackTranscript(NotAvailableMsg)))
  /\ UNCHANGED <<now, guest_usage, files, account, progressStreams>>

\* audioExtractor.extractAudio(url)
ETAcquire(r) ==
  /\ run[r].pc = "et_acquire"
  /\ \/ \E big \in BOOLEAN :
          /\ Set(r, [run[r] EXCEPT
                       !.pc = "et_call", !.nAcquireCall = @ + 1, !.nAcquired = @ + 1,
                       !.audio = [path |-> r, duration |-> run[r].dur, tooLarge |-> big,
                                    ext |-> ".mp3", exists |-> TRUE]])
          /\ files' = files \cup {r}
     \/ \E msg \in AcquireErrors :
          /\ Set(r, Finish([run[r] EXCEPT !.nAcquireCall = @ + 1], FallbackTranscript(msg)))
          /\ files' = files
  /\ UNCHANGED <<now, guest_usage, account, progressStreams>>

\* The guest duration limit and the call of transcribeAudio up to the request.
ETCall(r) ==
  /\ run[r].pc = "et_call"
  /\ IF IsGuestRun(run[r]) /\ run[r].audio.duration > GuestMaxDuration
       THEN /\ Set(r, Finish(Released(run[r]), FallbackTranscript(DurationMsg)))
            /\ files' = CleanupFiles(run[r])
     ELSE IF PrecheckError(run[r].audio) # ""
       THEN /\ Set(r, Finish(Released([run[r] EXCEPT !.err = PrecheckError(run[r].audio)]),
                             FallbackTranscript(TranslateTranscriptionError(PrecheckError(run[r].audio)))))
            /\ files' = CleanupFiles(run[r])
     ELSE /\ Set(r, [run[r] EXCEPT !.pc = "et_engine", !.nEngine = @ + 1])
          /\ files' = files
  /\ UNCHANGED <<now, guest_usage, account, progressStreams>>

\* A transcription step that sends the request again after an engine error.
ETEngine_Retry(r) ==
  /\ run[r].pc = "et_engine"
  /\ \/ \E ans \in EngineAnswers :
          /\ Set(r, [run[r] EXCEPT !.pc = "et_cleanup", !.answer = ans])
          /\ files' = files
     \/ \E e \in EngineErrors :
          IF run[r].nEngine < 2
            THEN /\ Set(r, [run[r] EXCEPT !.pc = "et_call", !.err = e])
                 /\ files' = files
            ELSE /\ Set(r, Finish(Released([run[r] EXCEPT !.err = e]),
                                  FallbackTranscript(TranslateTranscriptionError(e))))
                 /\ files' = CleanupFiles(run[r])
  /\ UNCHANGED <<now, guest_usage, account, progressStreams>>

\* The answer of the speech-to-text request.
ETEngine(r) ==
  /\ run[r].pc = "et_engine"
  /\ \/ \E ans \in EngineAnswers :
          /\ Set(r, [run[r] EXCEPT !.pc = "et_cleanup", !.answer = ans])
          /\ files' = files
     \/ \E e \in EngineErrors :
          /\ Set(r, Finish(Released([run[r] EXCEPT !.err = e]),
                           FallbackTranscript(TranslateTranscriptionError(e))))
          /\ files' = CleanupFiles(run[r])
  /\ UNCHANGED <<now, guest_usage, account, progressStreams>>

\* The finally block after a successful transcription, and the return.
ETCleanup(r) ==
  /\ run[r].pc = "et_cleanup"
  /\ Set(r, Finish(Released(run[r]), OkTranscript(run[r].answer)))
  /\ files' = CleanupFiles(run[r])
  /\ UNCHANGED <<now, guest_usage, account, progressStreams>>

(***************************************************************************)
(* Direct call of the exported processVideo(url, language?, cb?), as the   *)
(* test script does.                                                       *)
(***************************************************************************)
LibVideoStart(r) ==
  /\ run[r].pc = "idle"
  /\ \E u \in {"yt_watch", "other"}, d \in Durations :
       LET rec == [run[r] EXCEPT !.kind = "lib_video", !.url = u, !.dur = d] IN
       IF isValidVideoUrl(u)
         THEN Set(r, [rec EXCEPT !.pc = "evi"])
         ELSE Set(r, Throw(rec, "Invalid video URL format"))
  /\ UNCHANGED <<now, guest_usage, files, account, progressStreams>>

Tick ==
  /\ now < MaxTime
  /\ now' = now + 1
  /\ UNCHANGED <<guest_usage, files, run, account, progressStreams>>

(***************************************************************************)
(* Express route POST /api/extract/guest, for a caller without a token     *)
(* (allowGuest sets guestInfo = {ip, isGuest: true}).  All requests come   *)
(* from one IP; guest_usage[d] is the extraction_count of that IP's row    *)
(* for date d, or NoRow.                                                   *)
(***************************************************************************)
\* A route that goes on to the usage check whatever the validation says.
XGStart_NoValidation(r) ==
  /\ run[r].pc = "idle"
  /\ \E u \in Urls :
       Set(r, [run[r] EXCEPT !.kind = "express_guest", !.url = u, !.cb = "string",
                             !.pc = "cgu_select"])
  /\ UNCHANGED <<now, guest_usage, files, account, progressStreams>>

\* The body check and validateVideoUrl, up to the rpc check_guest_usage.
\* The route hands clientIP (a string) to processGuestVideo as its callback.
XGStart(r) ==
  /\ run[r].pc = "idle"
  /\ \E u \in Urls :
       LET rec == [run[r] EXCEPT !.kind = "express_guest", !.url = u, !.cb = "string"] IN
       IF u = "empty"
         THEN Set(r, [rec EXCEPT !.pc = "done", !.resp = ErrorResp(400, "Video URL is required")])
       ELSE IF ~isValidVideoUrl(u)
         THEN Set(r, [rec EXCEPT !.pc = "done", !.resp = ErrorResp(400, validateVideoUrl(u))])
       ELSE Set(r, [rec EXCEPT !.pc = "cgu_select"])
  /\ UNCHANGED <<now, guest_usage, files, account, progressStreams>>

\* The RETURN QUERY of check_guest_usage and the route's reading of it.
CheckGuestUsageReturn(rec, current) ==
  LET remaining == IF CheckDailyLimit - current > 0 THEN CheckDailyLimit - current ELSE 0
      reset     == (rec.day + 1) * TicksPerDay
      usage     == [can_extract |-> current < CheckDailyLimit,
                    remaining_extractions |-> remaining, reset_time |-> reset]
  IN IF ~usage.can_extract
       THEN [rec EXCEPT !.pc = "done", !.usage = usage,
                        !.resp = [ErrorResp(429, "Daily limit reached. Guest users can extract 1 video per day.")
                                    EXCEPT !.remaining = remaining, !.reset = reset]]
       ELSE [rec EXCEPT !.pc = "pgv_start", !.usage = usage]

\* check_guest_usage: the SELECT of today's row (CURRENT_DATE is fixed here).
CGUSelect(r) ==
  /\ run[r].pc = "cgu_select"
  /\ LET rec == [run[r] EXCEPT !.day = Today(now), !.nQuotaRead = @ + 1] IN
     IF guest_usage[Today(now)] = NoRow
       THEN Set(r, [rec EXCEPT !.pc = "cgu_insert"])
       ELSE Set(r, CheckGuestUsageReturn(rec, guest_usage[Today(now)]))
  /\ UNCHANGED <<now, guest_usage, files, account, progressStreams>>

\* check_guest_usage: the INSERT of a fresh row after NOT FOUND.  A row
\* inserted meanwhile violates UNIQUE(ip_address, usage_date): the rpc
\* returns an error and the route answers 500.
CGUInsert(r) ==
  /\ run[r].pc = "cgu_insert"
  /\ IF guest_usage[run[r].day] # NoRow
       THEN /\ Set(r, [run[r] EXCEPT !.pc = "done",
                                     !.resp = ErrorResp(500, "Failed to check usage limits")])
            /\ guest_usage' = guest_usage
       ELSE /\ Set(r, CheckGuestUsageReturn(run[r], 0))
            /\ guest_usage' = [guest_usage EXCEPT ![run[r].day] = 0]
  /\ UNCHANGED <<now, files, account, progressStreams>>

InitExpress ==
  /\ now = 0
  /\ guest_usage \in [Days -> {NoRow, 0, 1}]
  /\ files = {}
  /\ run = IdleRuns
  /\ account = NoAccount
  /\ progressStreams = NoStreams

NextExpress ==
  \/ Tick
  \/ \E r \in Runs :
       \/ XGStart(r)
       \/ CGUSelect(r)
       \/ CGUInsert(r)
       \/ PGVStart(r)

SpecExpress == InitExpress /\ [][NextExpress]_vars

(***************************************************************************)
(* Supabase Edge Function extract-guest.  It keeps its own daily limit and *)
(* reads and writes the guest_usage table directly.                        *)
(***************************************************************************)
EdgeErrors == [info   |-> "Failed to get video info: 500",
               audio  |-> "Failed to download audio: 403",
               engine |-> "Transcription failed: 401 Incorrect API key provided"]

\* The extraction object built after a successful transcription.
EdgeExtraction(info, ans) ==
  [status |-> "completed", fallback |-> FALSE,
   duration |-> IF info.duration < EdgeDurationCap THEN info.duration ELSE EdgeDurationCap,
   text |-> ans.text,
   segments |-> IF ans.hasSegments THEN ans.segments ELSE << >>]

\* The catch block: the fallback object that replaces the extraction.
EdgeFallbackExtraction(msg) ==
  [status |-> "completed", fallback |-> TRUE, duration |-> EdgeFallbackDuration,
   text |-> <<"Video processing failed: ", msg,
              ". This is fallback mock data. Please check the Edge Function logs for details.">>,
   segments |-> << Seg(0, 5, <<"Video processing failed. This is fallback mock data.">>),
                   Seg(5, 15, <<"Please check the Edge Function configuration and try again.">>) >>]

\* A handler that marks the object failed when the insert is refused.
EdgeStoreResult_MarkFailed(ex, insertError) ==
  IF insertError THEN [ex EXCEPT !.status = "failed"] ELSE ex

\* What the handler keeps as realExtraction after the insert into the
\* extractions table: an insert error is logged and the object is kept as is.
EdgeStoreResult(ex, insertError) == ex

\* The body check, the date of the request and the start of the usage query.
EdgeStart(r) ==
  /\ run[r].pc = "idle"
  /\ \E u \in {"yt_watch", "garbage", "empty"} :
       LET rec == [run[r] EXCEPT !.kind = "edge_guest", !.url = u] IN
       IF u = "empty"
         THEN Set(r, [rec EXCEPT !.pc = "done", !.resp = ErrorResp(400, "Video URL is required")])
         ELSE Set(r, [rec EXCEPT !.pc = "edge_read", !.day = Today(now)])
  /\ UNCHANGED <<now, guest_usage, files, account, progressStreams>>

\* The answer of the usage query and the limit check.
EdgeReadUsage(r) ==
  /\ run[r].pc = "edge_read"
  /\ LET row          == guest_usage[run[r].day]
         currentCount == IF row = NoRow THEN 0 ELSE row
         rec          == [run[r] EXCEPT !.usage = [row |-> row, currentCount |-> currentCount],
                                        !.nQuotaRead = @ + 1]
     IN IF currentCount >= EdgeDailyLimit
          THEN Set(r, [rec EXCEPT !.pc = "done",
                         !.resp = [ErrorResp(429, "Daily extraction limit reached for guest users")
                                     EXCEPT !.remaining = 0, !.reset = now + TicksPerDay]])
          ELSE Set(r, [rec EXCEPT !.pc = "edge_info"])
  /\ UNCHANGED <<now, guest_usage, files, account, progressStreams>>

\* The metadata request to the yt-dlp service.
EdgeInfo(r) ==
  /\ run[r].pc = "edge_info"
  /\ \/ \E d \in Durations :
          Set(r, [run[r] EXCEPT !.pc = "edge_audio", !.nProbe = @ + 1, !.dur = d,
                                !.info = [duration |-> d, placeholder |-> FALSE]])
     \/ Set(r, [run[r] EXCEPT !.pc = "edge_usage", !.nProbe = @ + 1,
                              !.extraction = EdgeFallbackExtraction(EdgeErrors.info)])
  /\ UNCHANGED <<now, guest_usage, files, account, progressStreams>>

\* The ranged download of the audio stream (kept in memory, no file).
EdgeAudio(r) ==
  /\ run[r].pc = "edge_audio"
  /\ \/ Set(r, [run[r] EXCEPT !.pc = "edge_engine", !.nAcquireCall = @ + 1])
     \/ Set(r, [run[r] EXCEPT !.pc = "edge_usage", !.nAcquireCall = @ + 1,
                              !.extraction = EdgeFallbackExtraction(EdgeErrors.audio)])
  /\ UNCHANGED <<now, guest_usage, files, account, progressStreams>>

\* The transcription request and the construction of the extraction object.
EdgeEngine(r) ==
  /\ run[r].pc = "edge_engine"
  /\ \/ \E ans \in EngineAnswers :
          Set(r, [run[r] EXCEPT !.pc = "edge_insert", !.nEngine = @ + 1, !.answer = ans,
                                !.extraction = EdgeExtraction(run[r].info, ans)])
     \/ Set(r, [run[r] EXCEPT !.pc = "edge_usage", !.nEngine = @ + 1,
                              !.extraction = EdgeFallbackExtraction(EdgeErrors.engine)])
  /\ UNCHANGED <<now, guest_usage, files, account, progressStreams>>

\* The insert into extractions.  The object has id 'guest_...', user_id
\* 'guest' and a column `platform`; the table has UUID id and user_id and no
\* such column, so the insert is answered with an error.
EdgeInsert(r) ==
  /\ run[r].pc = "edge_insert"
  /\ Set(r, [run[r] EXCEPT !.pc = "edge_usage",
                           !.extraction = EdgeStoreResult(run[r].extraction, TRUE)])
  /\ UNCHANGED <<now, guest_usage, files, account, progressStreams>>

\* The usage write (from the snapshot read at the start) and the response.
EdgeUsage(r) ==
  /\ run[r].pc = "edge_usage"
  /\ LET cc        == run[r].usage.currentCount
         left      == EdgeDailyLimit - (cc + 1)
         remaining == IF left > 0 THEN left ELSE 0
     IN /\ Set(r, [run[r] EXCEPT !.pc = "done", !.nQuotaInc = @ + 1,
                     !.resp = [NoResp EXCEPT !.code = 200, !.kind = "ok",
                                             !.remaining = remaining,
                                             !.reset = NextMidnight(now)]])
        /\ IF run[r].usage.row # NoRow
             THEN guest_usage' = [guest_usage EXCEPT ![run[r].day] = cc + 1]
             ELSE IF guest_usage[run[r].day] = NoRow
               THEN guest_usage' = [guest_usage EXCEPT ![run[r].day] = 1]
               ELSE guest_usage' = guest_usage
  /\ UNCHANGED <<now, files, account, progressStreams>>

InitEdge ==
  /\ now = 0
  /\ guest_usage \in [Days -> {NoRow, 2, 3}]
  /\ files = {}
  /\ run = IdleRuns
  /\ account = NoAccount
  /\ progressStreams = NoStreams

NextEdge ==
  \/ Tick
  \/ \E r \in Runs :
       \/ EdgeStart(r)
       \/ EdgeReadUsage(r)
       \/ EdgeInfo(r)
       \/ EdgeAudio(r)
       \/ EdgeEngine(r)
       \/ EdgeInsert(r)
       \/ EdgeUsage(r)

SpecEdge == InitEdge /\ [][NextEdge]_vars

(***************************************************************************)
(* The Edge Function within one calendar day: the clock stands still.      *)
(***************************************************************************)
InitEdgeOneDay ==
  /\ now = 0
  /\ guest_usage \in { f \in [Days -> {NoRow, 2, 3}] : \A d \in Days : d # 0 => f[d] = NoRow }
  /\ files = {}
  /\ run = IdleRuns
  /\ account = NoAccount
  /\ progressStreams = NoStreams

NextEdgeOneDay ==
  \E r \in Runs :
    \/ EdgeStart(r)
    \/ EdgeReadUsage(r)
    \/ EdgeInfo(r)
    \/ EdgeAudio(r)
    \/ EdgeEngine(r)
    \/ EdgeInsert(r)
    \/ EdgeUsage(r)

SpecEdgeOneDay == InitEdgeOneDay /\ [][NextEdgeOneDay]_vars

(***************************************************************************)
(* The orchestrator called directly: no clock, no quota store.             *)
(***************************************************************************)
InitPipeline ==
  /\ now = 0
  /\ guest_usage = [d \in Days |-> NoRow]
  /\ files = {}
  /\ run = IdleRuns
  /\ account = NoAccount
  /\ progressStreams = NoStreams

NextPipeline ==
  \E r \in Runs :
    \/ LibGuestStart(r)
    \/ LibVideoStart(r)
    \/ PGVStart(r)
    \/ ExtractVideoInfo(r)
    \/ ETAvailable(r)
    \/ ETAcquire(r)
    \/ ETCall(r)
    \/ ETEngine(r)
    \/ ETCleanup(r)

SpecPipeline == InitPipeline /\ [][NextPipeline]_vars

(***************************************************************************)
(* Guest runs alone: direct calls of processGuestVideo.                    *)
(***************************************************************************)
NextGuestPipeline ==
  \E r \in Runs :
    \/ LibGuestStart(r)
    \/ PGVStart(r)
    \/ ExtractVideoInfo(r)
    \/ ETAvailable(r)
    \/ ETAcquire(r)
    \/ ETCall(r)
    \/ ETEngine(r)
    \/ ETCleanup(r)

SpecGuestPipeline == InitPipeline /\ [][NextGuestPipeline]_vars

(***************************************************************************)
(* The pipeline with a downloader that may never answer.  extractAudio     *)
(* awaits a promise that settles only on the child's close or error event; *)
(* no timer is armed, so a child that emits neither leaves the await       *)
(* pending.  Every continuation that is ready runs (event loop): weak      *)
(* fairness on the steps of each run.                                      *)
(***************************************************************************)
ETAcquireHangs(r) ==
  /\ run[r].pc = "et_acquire"
  /\ Set(r, [run[r] EXCEPT !.pc = "et_acquire_pending", !.nAcquireCall = @ + 1])
  /\ UNCHANGED <<now, guest_usage, files, account, progressStreams>>

RunStep(r) ==
  \/ LibGuestStart(r)
  \/ LibVideoStart(r)
  \/ PGVStart(r)
  \/ ExtractVideoInfo(r)
  \/ ETAvailable(r)
  \/ ETAcquire(r)
  \/ ETAcquireHangs(r)
  \/ ETCall(r)
  \/ ETEngine(r)
  \/ ETCleanup(r)

NextPipelineLive == \E r \in Runs : RunStep(r)

SpecPipelineLive ==
  InitPipeline /\ [][NextPipelineLive]_vars /\ \A r \in Runs : WF_vars(RunStep(r))

(***************************************************************************)
(* Express route POST /api/extract/video, for one signed-in user.  The     *)
(* limit check counts the user's rows of the extractions table created     *)
(* today; the route then calls processVideo and answers.  A connection     *)
(* that has been answered can carry the next request.                      *)
(***************************************************************************)
\* req.user.subscription_tier === 'pro' ? 100 : 5
DailyLimit(tier) == IF tier = "pro" THEN ProDailyLimit ELSE FreeDailyLimit

\* The body check, the URL check, the date and the start of the count query.
XVStart(r) ==
  /\ run[r].pc \in {"idle", "done"}
  /\ account.passed[Today(now)] < MaxPassed
  /\ \E u \in {"yt_watch", "other", "empty"} :
       LET rec == [IdleRun EXCEPT !.kind = "express_video", !.url = u, !.dur = 50] IN
       IF u = "empty"
         THEN Set(r, [rec EXCEPT !.pc = "done", !.resp = ErrorResp(400, "Video URL is required")])
       ELSE IF ~isValidVideoUrl(u)
         THEN Set(r, [rec EXCEPT !.pc = "done", !.resp = ErrorResp(400, validateVideoUrl(u))])
       ELSE Set(r, [rec EXCEPT !.pc = "xv_count", !.day = Today(now)])
  /\ UNCHANGED <<now, guest_usage, files, account, progressStreams>>

\* The answer of the count query and the limit check.
XVCount(r) ==
  /\ run[r].pc = "xv_count"
  /\ IF account.rows[run[r].day] >= DailyLimit(account.tier)
       THEN /\ Set(r, [run[r] EXCEPT !.pc = "done", !.nQuotaRead = @ + 1,
                                      !.resp = [ErrorResp(429, "Daily extraction limit reached")
                                                  EXCEPT !.limit = DailyLimit(account.tier)]])
            /\ account' = account
       ELSE /\ Set(r, [run[r] EXCEPT !.pc = "evi", !.nQuotaRead = @ + 1])
            /\ account' = [account EXCEPT !.passed[run[r].day] = @ + 1]
  /\ UNCHANGED <<now, guest_usage, files, progressStreams>>

InitExpressVideo ==
  /\ now = 0
  /\ guest_usage = [d \in Days |-> NoRow]
  /\ files = {}
  /\ run = IdleRuns
  /\ account \in { [NoAccount EXCEPT !.tier = t, !.rows = f] :
                     t \in {"free", "pro"}, f \in [Days -> {0, FreeDailyLimit}] }
  /\ progressStreams = NoStreams

NextExpressVideo ==
  \/ Tick
  \/ \E r \in Runs :
       \/ XVStart(r)
       \/ XVCount(r)
       \/ ExtractVideoInfo(r)
       \/ ETAvailable(r)
       \/ ETAcquire(r)
       \/ ETCall(r)
       \/ ETEngine(r)
       \/ ETCleanup(r)

SpecExpressVideo == InitExpressVideo /\ [][NextExpressVideo]_vars

(***************************************************************************)
(* Supabase Edge Function extract-video, for callers with a token.  It     *)
(* builds a mock transcript and stores the extraction.                     *)
(***************************************************************************)
AuthHeaders == {"missing", "invalid", "valid"}

\* urlPatterns.some(pattern => pattern.test(video_url))
urlPatterns(id) ==
  LET u == UrlOf(id)
      n == Len(u.path)
  IN /\ u.parses /\ u.protocol \in {"http:", "https:"}
     /\ \/ /\ OptWww(u.host, <<"youtube", "com">>)
            /\ u.path = <<"watch">> /\ u.v \in YoutubeIdStrings
         \/ /\ OptWww(u.host, <<"youtu", "be">>)
            /\ n >= 1 /\ u.path[1] \in YoutubeIdStrings
         \/ /\ OptWww(u.host, <<"bilibili", "com">>)
            /\ n >= 2 /\ u.path[1] = "video" /\ u.path[2] \in AlnumStrings
         \/ /\ OptWww(u.host, <<"xiaohongshu", "com">>)
            /\ n >= 1 /\ u.path[1] \in AlnumStrings

\* The extraction object of extract-video: a mock transcript, status completed.
EdgeVideoExtraction(id) ==
  [id |-> "auth_", status |-> "completed", fallback |-> FALSE, duration |-> 300,
   text |-> <<"This is a mock transcript for the video: ", id>>,
   segments |-> << Seg(0, 5, <<"This is a mock transcript for the video.">>),
                   Seg(5, 10, <<"In a real implementation, this would contain the actual extracted transcript.">>) >>]

\* extractions.id is a UUID column: the insert of a row whose id is the
\* string auth_<ms>_<base36> is refused.
InsertRefused(row) == row.id # "uuid"

\* The token check, the body check and the URL check.
EdgeVideoStart(r) ==
  /\ run[r].pc = "idle"
  /\ \E a \in AuthHeaders, u \in Urls :
       LET rec == [run[r] EXCEPT !.kind = "edge_video", !.url = u, !.pc = "done"] IN
       IF a = "missing"
         THEN Set(r, [rec EXCEPT !.resp = ErrorResp(401, "Missing authorization header")])
       ELSE IF a = "invalid"
         THEN Set(r, [rec EXCEPT !.resp = ErrorResp(401, "Invalid or expired token")])
       ELSE IF u = "empty"
         THEN Set(r, [rec EXCEPT !.resp = ErrorResp(400, "Video URL is required")])
       ELSE IF ~urlPatterns(u)
         THEN Set(r, [rec EXCEPT !.resp = ErrorResp(400, "Invalid video URL format")])
       ELSE Set(r, [rec EXCEPT !.pc = "ev_insert", !.extraction = EdgeVideoExtraction(u)])
  /\ UNCHANGED <<now, guest_usage, files, account, progressStreams>>

\* The insert into extractions and the response.
EdgeVideoInsert(r) ==
  /\ run[r].pc = "ev_insert"
  /\ IF InsertRefused(run[r].extraction)
       THEN Set(r, [run[r] EXCEPT !.pc = "done", !.resp = ErrorResp(500, "Failed to save extraction")])
       ELSE Set(r, [run[r] EXCEPT !.pc = "done", !.resp = [NoResp EXCEPT !.code = 200, !.kind = "ok"]])
  /\ UNCHANGED <<now, guest_usage, files, account, progressStreams>>

NextEdgeVideo ==
  \E r \in Runs :
    \/ EdgeVideoStart(r)
    \/ EdgeVideoInsert(r)

SpecEdgeVideo == InitPipeline /\ [][NextEdgeVideo]_vars

(***************************************************************************)
(* URL resolution called on its own, as the URL test script does:          *)
(* validateVideoUrl, then detectPlatform and extractVideoId.               *)
(***************************************************************************)
ResolveUrl(r) ==
  /\ run[r].pc = "idle"
  /\ \E u \in Urls :
       LET rec == [run[r] EXCEPT !.kind = "resolve", !.url = u, !.pc = "done"] IN
       IF isValidVideoUrl(u)
         THEN Set(r, [rec EXCEPT !.resp = [NoResp EXCEPT !.kind = "ok",
                                                         !.platform = detectPlatform(u),
                                                         !.videoId = extractVideoId(u)]])
         ELSE Set(r, [rec EXCEPT !.resp = [NoResp EXCEPT !.kind = "error",
                                                         !.error = validateVideoUrl(u)]])
  /\ UNCHANGED <<now, guest_usage, files, account, progressStreams>>

NextResolver == \E r \in Runs : ResolveUrl(r)

SpecResolver == InitPipeline /\ [][NextResolver]_vars

(***************************************************************************)
(* Direct calls of transcriptionService.transcribeAudio, as the test       *)
(* script makes them.  The source holds two variants of the service:       *)
(* variant 1 is transcribeAudio(audioPath, language?), variant 2 is        *)
(* transcribeAudio(audioPath, options) with options.maxDuration.           *)
(***************************************************************************)
Variants == {1, 2}

\* Audio files a caller may pass.
AudioSamples ==
  { [path |-> "a.mp3", duration |-> 50, tooLarge |-> FALSE, ext |-> ".mp3", exists |-> TRUE],
    [path |-> "b.mp3", duration |-> 50, tooLarge |-> TRUE, ext |-> ".mp3", exists |-> TRUE],
    [path |-> "c.ogg", duration |-> 50, tooLarge |-> FALSE, ext |-> ".ogg", exists |-> TRUE],
    [path |-> "d.mp3", duration |-> 50, tooLarge |-> FALSE, ext |-> ".mp3", exists |-> FALSE] }

\* Values of options.maxDuration a caller may pass.
MaxDurationSamples == {NoMaxDuration, 30}

\* segment.text.trim(), on texts held as token sequences.
Trim(t) == SelectSeq(t, LAMBDA tok : tok # " ")

\* The value variant 1 returns for an engine answer.
TranscriptionResult1(ans) ==
  LET segs == IF ans.hasSegments
                THEN [i \in 1..Len(ans.segments) |->
                        Seg(ans.segments[i].start, ans.segments[i].end, Trim(ans.segments[i].text))]
                ELSE << >> IN
  [text |-> ans.text,
   segments |-> IF Len(segs) = 0 /\ ans.text # << >> THEN << Seg(0, 0, Trim(ans.text)) >> ELSE segs,
   hasSegments |-> TRUE]

\* The value variant 2 returns for an engine answer and options.maxDuration.
TranscriptionResult2(ans, maxDuration) ==
  [text |-> ans.text,
   segments |-> IF ans.hasSegments
                  THEN [i \in 1..Len(ans.segments) |->
                          Seg(ans.segments[i].start, ans.segments[i].end, ans.segments[i].text)]
                  ELSE << >>,
   hasSegments |-> ans.hasSegments]

\* The catch block of variant 1.
TranslateTranscriptionError1(msg) ==
  IF msg = "Incorrect API key provided"
    THEN "Invalid OpenAI API key. Please check your configuration."
  ELSE IF msg = "You exceeded your current quota"
    THEN "OpenAI API quota exceeded. Please check your usage limits."
  ELSE IF msg = "Connection error"
    THEN "Transcription failed: Connection error"
  ELSE msg

\* transcribeAudio up to the request to the engine.
TranscribeStart(r) ==
  /\ run[r].pc = "idle"
  /\ \E v \in Variants, f \in AudioSamples, L \in MaxDurationSamples :
       /\ v = 1 => (f.exists /\ L = NoMaxDuration)
       /\ LET rec == [run[r] EXCEPT !.kind = "transcribe", !.variant = v,
                                    !.audio = f, !.maxDuration = L] IN
          IF v = 2 /\ PrecheckError(f) # ""
            THEN Set(r, Throw([rec EXCEPT !.err = PrecheckError(f)],
                              TranslateTranscriptionError(PrecheckError(f))))
            ELSE Set(r, [rec EXCEPT !.pc = "ta_engine", !.nEngine = @ + 1])
  /\ UNCHANGED <<now, guest_usage, files, account, progressStreams>>

\* The answer of the engine and the return of transcribeAudio.
TranscribeEngine(r) ==
  /\ run[r].pc = "ta_engine"
  /\ \/ \E ans \in EngineAnswers :
          Set(r, [run[r] EXCEPT
                    !.pc = "done", !.answer = ans,
                    !.transcript = IF run[r].variant = 1
                                     THEN TranscriptionResult1(ans)
                                     ELSE TranscriptionResult2(ans, run[r].maxDuration),
                    !.resp = [NoResp EXCEPT !.kind = "ok"]])
     \/ \E e \in EngineErrors :
          Set(r, Throw([run[r] EXCEPT !.err = e],
                       IF run[r].variant = 1 THEN TranslateTranscriptionError1(e)
                                             ELSE TranslateTranscriptionError(e)))
  /\ UNCHANGED <<now, guest_usage, files, account, progressStreams>>

NextTranscribe ==
  \E r \in Runs :
    \/ TranscribeStart(r)
    \/ TranscribeEngine(r)

SpecTranscribe == InitPipeline /\ [][NextTranscribe]_vars

(***************************************************************************)
(* audioExtractor.extractAudio called on its own.  The downloader writes   *)
(* under the output template <tmp>/<audioId>.%(ext)s : a file of this call *)
(* is a pair <<run, extension>>.                                           *)
(***************************************************************************)
\* How the downloader child ends and which files it leaves behind.
DownloadOutcomes ==
  { [event |-> "close", code |-> 0, left |-> {".mp3"}],
    [event |-> "close", code |-> 0, left |-> {".m4a"}],
    [event |-> "close", code |-> 1, left |-> {}],
    [event |-> "close", code |-> 1, left |-> {".mp3"}],
    [event |-> "close", code |-> 1, left |-> {".webm.part"}],
    [event |-> "error", code |-> -1, left |-> {}] }

\* The catch block of extractAudio: unlink audioPath if it exists.
ExtractAudioCatch(fs, r) == fs \ {<<r, ".mp3">>}

\* The choice of audioPath and the metadata lookup.
ExtractAudioInfo(r) ==
  /\ run[r].pc = "idle"
  /\ \E u \in {"yt_watch", "yt_short"}, ok \in BOOLEAN :
       LET rec == [run[r] EXCEPT !.kind = "acquire", !.url = u, !.nProbe = @ + 1] IN
       IF ok
         THEN /\ Set(r, [rec EXCEPT !.pc = "ea_download"])
              /\ files' = files
         ELSE /\ Set(r, Throw([rec EXCEPT !.err = "Failed to get video info"],
                               "Failed to get video info"))
              /\ files' = ExtractAudioCatch(files, r)
  /\ UNCHANGED <<now, guest_usage, account, progressStreams>>

\* The end of the downloader child, the check of the output file, and the
\* return or the catch block.
ExtractAudioDownload(r) ==
  /\ run[r].pc = "ea_download"
  /\ \E o \in DownloadOutcomes :
       LET written == files \cup { <<r, x>> : x \in o.left }
           rec     == [run[r] EXCEPT !.nAcquireCall = @ + 1]
           msg     == IF o.event = "error" THEN "spawn yt-dlp ENOENT"
                      ELSE IF o.code # 0 THEN "yt-dlp process exited with code 1"
                      ELSE "Audio file was not created"
       IN IF o.event = "close" /\ o.code = 0 /\ <<r, ".mp3">> \in written
            THEN /\ Set(r, [rec EXCEPT !.pc = "done", !.nAcquired = @ + 1,
                                        !.resp = [NoResp EXCEPT !.kind = "ok"]])
                 /\ files' = written
            ELSE /\ Set(r, Throw([rec EXCEPT !.err = msg], msg))
                 /\ files' = ExtractAudioCatch(written, r)
  /\ UNCHANGED <<now, guest_usage, account, progressStreams>>

NextAcquire ==
  \E r \in Runs :
    \/ ExtractAudioInfo(r)
    \/ ExtractAudioDownload(r)

SpecAcquire == InitPipeline /\ [][NextAcquire]_vars

(***************************************************************************)
(* The guest-mode truncation of a transcription result, as the             *)
(* transcription test script applies it, applied twice in a row.           *)
(***************************************************************************)
\* The segments of an engine answer, in time order (seconds).
SegmentChain == << Seg(0, 20, "t1"), Seg(20, 40, "t2"), Seg(40, 70, "t3"), Seg(65, 80, "t4") >>

\* Engine answers: the chain with some of its segments left out.
TruncationInputs ==
  { SelectSeq(SegmentChain, LAMBDA sg : sg \in S) :
      S \in SUBSET { SegmentChain[i] : i \in 1..Len(SegmentChain) } }

\* Duration limits in seconds; the test script uses 60.
DurationLimits == {30, 60}

\* A truncation that also drops the last segment it keeps.
guestSegments_DropLast(segments, limit) ==
  LET kept == SelectSeq(segments, LAMBDA segment : segment.start < limit) IN
  IF Len(kept) = 0 THEN kept ELSE SubSeq(kept, 1, Len(kept) - 1)

\* transcriptionResult.segments.filter(segment => segment.start < limit)
guestSegments(segments, limit) ==
  SelectSeq(segments, LAMBDA segment : segment.start < limit)

\* The first truncation of an engine answer.
TruncateFirst(r) ==
  /\ run[r].pc = "idle"
  /\ \E segs \in TruncationInputs, L \in DurationLimits :
       Set(r, [run[r] EXCEPT !.kind = "truncate", !.pc = "truncated",
                             !.answer = [segments |-> segs], !.maxDuration = L,
                             !.transcript = [segments |-> guestSegments(segs, L)]])
  /\ UNCHANGED <<now, guest_usage, files, account, progressStreams>>

\* A second truncation of the result, to the same or a larger limit.
TruncateAgain(r) ==
  /\ run[r].pc = "truncated"
  /\ \E L \in DurationLimits :
       /\ L >= run[r].maxDuration
       /\ Set(r, [run[r] EXCEPT !.pc = "done", !.maxDuration2 = L,
                                !.output = guestSegments(run[r].transcript.segments, L)])
  /\ UNCHANGED <<now, guest_usage, files, account, progressStreams>>

NextTruncate ==
  \E r \in Runs :
    \/ TruncateFirst(r)
    \/ TruncateAgain(r)

SpecTruncate == InitPipeline /\ [][NextTruncate]_vars

(***************************************************************************)
(* The SSE progress registry (api/routes/progress.ts).  run[r] is one      *)
(* connection to GET /stream/:sessionId; output holds the events written   *)
(* to its response.  Every handler is synchronous: one action each.        *)
(***************************************************************************)
\* Events written to one stream before the model stops sending.
MaxEvents == 3

\* A progress.ts handler leaves the other stores alone.
ProgressFrame == UNCHANGED <<now, guest_usage, files, account>>

\* A completion that leaves the session registered.
completeProgress_KeepRegistered(sid) ==
  /\ LET r == progressStreams[sid] IN
       IF r # NoStream
         THEN \E ok \in BOOLEAN :
                IF ok THEN Set(r, [run[r] EXCEPT !.pc = "ended", !.output = Append(@, "complete")])
                      ELSE run' = run
         ELSE run' = run
  /\ progressStreams' = progressStreams
  /\ ProgressFrame

\* GET /stream/:sessionId : register the response and greet the client.
StreamOpen(r) ==
  /\ run[r].pc = "idle"
  /\ \E sid \in SessionIds :
       /\ Set(r, [run[r] EXCEPT !.kind = "stream", !.pc = "open", !.sessionId = sid,
                                !.output = <<"connected">>])
       /\ progressStreams' = [progressStreams EXCEPT ![sid] = r]
  /\ ProgressFrame

\* req.on('aborted'): the client aborted the request.
StreamAborted(r) ==
  /\ run[r].pc = "open"
  /\ Set(r, [run[r] EXCEPT !.pc = "aborted"])
  /\ progressStreams' = [progressStreams EXCEPT ![run[r].sessionId] = NoStream]
  /\ ProgressFrame

\* req.on('close'): the connection is gone.
StreamClose(r) ==
  /\ run[r].pc \in {"open", "aborted", "ended"}
  /\ Set(r, [run[r] EXCEPT !.pc = "closed"])
  /\ progressStreams' = [progressStreams EXCEPT ![run[r].sessionId] = NoStream]
  /\ ProgressFrame

\* sendProgressUpdate(sessionId, status, stage): write to the registered
\* stream; a write that throws removes the registration.
sendProgressUpdate(sid) ==
  /\ LET r == progressStreams[sid] IN
       IF r # NoStream /\ Len(run[r].output) < MaxEvents
         THEN \E ok \in BOOLEAN :
                IF ok THEN /\ Set(r, [run[r] EXCEPT !.output = Append(@, "progress")])
                           /\ progressStreams' = progressStreams
                      ELSE /\ run' = run
                           /\ progressStreams' = [progressStreams EXCEPT ![sid] = NoStream]
         ELSE /\ run' = run
              /\ progressStreams' = progressStreams
  /\ ProgressFrame

\* completeProgress(sessionId): write 'complete', end the response, and
\* remove the registration whether or not the write threw.
completeProgress(sid) ==
  /\ LET r == progressStreams[sid] IN
       IF r # NoStream
         THEN \E ok \in BOOLEAN :
                IF ok THEN Set(r, [run[r] EXCEPT !.pc = "ended", !.output = Append(@, "complete")])
                      ELSE run' = run
         ELSE run' = run
  /\ progressStreams' = [progressStreams EXCEPT ![sid] = NoStream]
  /\ ProgressFrame

NextProgress ==
  \/ \E r \in Runs :
       \/ StreamOpen(r)
       \/ StreamAborted(r)
       \/ StreamClose(r)
  \/ \E sid \in SessionIds :
       \/ sendProgressUpdate(sid)
       \/ completeProgress(sid)

SpecProgress == InitPipeline /\ [][NextProgress]_vars

(***************************************************************************)
(* Export of a transcript to srt.  Times are held in milliseconds (the     *)
(* code holds seconds with a fraction); a text file is a sequence of       *)
(* lines, a line a sequence of pieces.                                     *)
(***************************************************************************)
RECURSIVE Digits(_)
\* Number.prototype.toString(): the decimal digits of n.
Digits(n) == IF n < 10 THEN <<n>> ELSE Digits(n \div 10) \o <<n % 10>>

RECURSIVE padStart(_, _)
\* String.prototype.padStart(w, '0')
padStart(ds, w) == IF Len(ds) >= w THEN ds ELSE padStart(<<0>> \o ds, w)

\* formatSRTTime (Express) and formatTime (Edge Function): HH:MM:SS,mmm
formatSRTTime(t) ==
  LET hours        == t \div 3600000
      minutes      == (t % 3600000) \div 60000
      secs         == (t % 60000) \div 1000
      milliseconds == t % 1000
  IN padStart(Digits(hours), 2) \o <<":">> \o padStart(Digits(minutes), 2) \o <<":">>
       \o padStart(Digits(secs), 2) \o <<",">> \o padStart(Digits(milliseconds), 3)

\* The lines of one block: `${index + 1}\n${startTime} --> ${endTime}\n${segment.text}\n`
SrtBlock(index, startTime, endTime, text) ==
  << <<index>>, startTime \o <<" --> ">> \o endTime, <<text>> >>

RECURSIVE JoinBlocks(_)
\* blocks.join('\n'): every block ends with a newline, so the join puts an
\* empty line between two blocks.
JoinBlocks(blocks) ==
  IF Len(blocks) = 0 THEN << >>
  ELSE IF Len(blocks) = 1 THEN blocks[1]
  ELSE blocks[1] \o << << >> >> \o JoinBlocks(Tail(blocks))

\* formatTranscript(text, segments, 'srt') of the Express export route.
formatTranscript(segments) ==
  JoinBlocks([i \in 1..Len(segments) |->
    SrtBlock(i,
             formatSRTTime(segments[i].start),
             formatSRTTime(IF segments[i].end # 0 THEN segments[i].end
                                                  ELSE segments[i].start + 5000),
             segments[i].text)])

\* exportToSRT(segments) of the Edge Function.
exportToSRT(segments) ==
  JoinBlocks([i \in 1..Len(segments) |->
    SrtBlock(i, formatSRTTime(segments[i].start), formatSRTTime(segments[i].end),
             segments[i].text)])

\* Segments of stored transcripts, among them the segment transcribeAudio
\* makes up for an answer without segments (start 0, end 0).
SegmentSamples ==
  { Seg(0, 0, "t0"), Seg(0, 1500, "t1"), Seg(3661007, 3725250, "t2") }

MaxSegments == 2

TranscriptSamples ==
  UNION { [1..n -> SegmentSamples] : n \in 0..MaxSegments }

Exporters == {"express", "edge"}

\* One export of a stored transcript to srt.
ExportSrt(r) ==
  /\ run[r].pc = "idle"
  /\ \E e \in Exporters, segs \in TranscriptSamples :
       Set(r, [run[r] EXCEPT
                 !.kind = "export", !.pc = "done", !.exporter = e,
                 !.transcript = [segments |-> segs],
                 !.output = IF e = "express" THEN formatTranscript(segs) ELSE exportToSRT(segs),
                 !.resp = [NoResp EXCEPT !.code = 200, !.kind = "ok"]])
  /\ UNCHANGED <<now, guest_usage, files, account, progressStreams>>

NextExport == \E r \in Runs : ExportSrt(r)

SpecExport == InitPipeline /\ [][NextExport]_vars

(***************************************************************************)
(* Express route POST /api/export/transcript, from the insert of the       *)
(* export job on.  run[r].job is the status column of the job's row        *)
(* ("none": no row).  The supabase client does not throw on a refused      *)
(* statement: it resolves to {error}, which the route reads only for the   *)
(* insert.                                                                 *)
(***************************************************************************)
\* Columns of the table export_jobs.
ExportJobColumns == {"id", "user_id", "extraction_id", "format", "file_path", "status",
                     "error_message", "created_at", "updated_at"}

\* An update naming a column the table does not have is refused as a whole.
UpdateApplied(cols) == cols \subseteq ExportJobColumns

\* transcript_segments of the stored extraction (JSONB): an array of
\* segments, or another JSON value, on which segments.map is not a function.
StoredSegments == {"array", "object"}

\* The insert of the job with status 'processing' and the test of jobError.
ExportJobInsert(r) ==
  /\ run[r].pc = "idle"
  /\ \E f \in {"txt", "srt"}, segs \in StoredSegments :
       LET rec == [run[r] EXCEPT !.kind = "export_job", !.format = f,
                                 !.transcript = [segments |-> segs]] IN
       \/ Set(r, [rec EXCEPT !.pc = "export_format", !.job = "processing"])
       \/ Set(r, [rec EXCEPT !.pc = "done",
                             !.resp = ErrorResp(500, "Failed to create export job")])
  /\ UNCHANGED <<now, guest_usage, files, account, progressStreams>>

\* formatTranscript and the update to 'completed' (with completed_at).
ExportJobComplete(r) ==
  /\ run[r].pc = "export_format"
  /\ IF run[r].format = "srt" /\ run[r].transcript.segments # "array"
       THEN Set(r, [run[r] EXCEPT !.pc = "export_catch"])
       ELSE Set(r, [run[r] EXCEPT !.pc = "export_send",
                      !.job = IF UpdateApplied({"status", "completed_at"})
                                THEN "completed" ELSE @])
  /\ UNCHANGED <<now, guest_usage, files, account, progressStreams>>

\* The download headers and res.send.
ExportJobSend(r) ==
  /\ run[r].pc = "export_send"
  /\ Set(r, [run[r] EXCEPT !.pc = "done", !.resp = [NoResp EXCEPT !.code = 200, !.kind = "ok"]])
  /\ UNCHANGED <<now, guest_usage, files, account, progressStreams>>

\* catch (formatError): the update to 'failed' (with error_message) and 500.
ExportJobFailed(r) ==
  /\ run[r].pc = "export_catch"
  /\ Set(r, [run[r] EXCEPT !.pc = "done",
                           !.job = IF UpdateApplied({"status", "error_message"})
                                     THEN "failed" ELSE @,
                           !.resp = ErrorResp(500, "Failed to format transcript")])
  /\ UNCHANGED <<now, guest_usage, files, account, progressStreams>>

NextExportJob ==
  \E r \in Runs :
    \/ ExportJobInsert(r)
    \/ ExportJobComplete(r)
    \/ ExportJobSend(r)
    \/ ExportJobFailed(r)

SpecExportJob == InitPipeline /\ [][NextExportJob]_vars

(***************************************************************************)
(* The callers of the extraction backend: api.call of the web client (for  *)
(* the two extract endpoints) and the serverless proxy api/extract/guest.  *)
(* Both fetch the backend and replace every failure by mock data.          *)
(***************************************************************************)
\* What the fetch of the backend yields: a response with its status and
\* body, or a rejected promise (status 0: the backend cannot be reached).
BackendAnswers ==
  { [status |-> 200, body |-> "extraction"],
    [status |-> 429, body |-> "Daily limit reached. Guest users can extract 1 video per day."],
    [status |-> 400, body |-> "Video duration exceeds 1-minute limit for guest users"],
    [status |-> 400, body |-> "Video URL is required"],
    [status |-> 500, body |-> "Internal server error"],
    [status |-> 0,   body |-> "fetch failed"] }

Callers == { [caller |-> "api.call", endpoint |-> "/api/extract/guest"],
             [caller |-> "api.call", endpoint |-> "/api/extract/video"],
             [caller |-> "proxy",    endpoint |-> "/api/extract/guest"] }

\* The mock payload: {success: true, extraction: mockExtraction, ...}.
MockResponse(rec) ==
  [NoResp EXCEPT !.code = 200, !.kind = "mock",
                 !.remaining = IF rec.endpoint = "/api/extract/guest" THEN 4 ELSE -1]

\* The call up to the await of fetch.
ClientFetch(r) ==
  /\ run[r].pc = "idle"
  /\ \E c \in Callers :
       Set(r, [run[r] EXCEPT !.kind = "client", !.pc = "client_await",
                             !.caller = c.caller, !.endpoint = c.endpoint])
  /\ UNCHANGED <<now, guest_usage, files, account, progressStreams>>

\* The fetch settles; `!response.ok` throws into the caller's own catch,
\* which answers with the mock payload, as does a rejected fetch.
ClientSettle(r) ==
  /\ run[r].pc = "client_await"
  /\ \E a \in BackendAnswers :
       LET rec == [run[r] EXCEPT !.pc = "done", !.answer = a] IN
       IF a.status = 200
         THEN Set(r, [rec EXCEPT !.resp = [NoResp EXCEPT !.code = 200, !.kind = "ok"]])
         ELSE Set(r, [rec EXCEPT !.resp = MockResponse(rec)])
  /\ UNCHANGED <<now, guest_usage, files, account, progressStreams>>

NextClient == \E r \in Runs : ClientFetch(r) \/ ClientSettle(r)

SpecClient == InitPipeline /\ [][NextClient]_vars

(***************************************************************************)
(* The SQL functions of the guest quota called one after the other, as a   *)
(* caller of the two rpcs does: check_guest_usage (CGUSelect, CGUInsert,   *)
(* as replaced by migration 003) and, when it answers can_extract, a later *)
(* increment_guest_usage.  pc "pgv_start" is the point after the check     *)
(* answered can_extract.                                                   *)
(***************************************************************************)
QuotaStart(r) ==
  /\ run[r].pc = "idle"
  /\ Set(r, [run[r] EXCEPT !.kind = "quota", !.pc = "cgu_select"])
  /\ UNCHANGED <<now, guest_usage, files, account, progressStreams>>

\* increment_guest_usage.  SELECT ... INTO leaves current_usage NULL when the
\* day has no row, and NULL >= daily_limit does not take the IF.
increment_guest_usage(r) ==
  /\ run[r].kind = "quota"
  /\ run[r].pc = "pgv_start"
  /\ LET d             == Today(now)
         current_usage == guest_usage[d]
     IN IF current_usage # NoRow /\ current_usage >= IncrementDailyLimit
          THEN /\ Set(r, [run[r] EXCEPT !.pc = "done", !.answer = [returned |-> FALSE]])
               /\ guest_usage' = guest_usage
          ELSE /\ Set(r, [run[r] EXCEPT !.pc = "done", !.answer = [returned |-> TRUE],
                                        !.nQuotaInc = @ + 1])
               /\ guest_usage' = [guest_usage EXCEPT
                                    ![d] = IF current_usage = NoRow THEN 1 ELSE current_usage + 1]
  /\ UNCHANGED <<now, files, account, progressStreams>>

NextQuota ==
  \/ Tick
  \/ \E r \in Runs :
       \/ QuotaStart(r)
       \/ CGUSelect(r)
       \/ CGUInsert(r)
       \/ increment_guest_usage(r)

SpecQuota == InitExpress /\ [][NextQuota]_vars

(***************************************************************************)
(* Properties.                                                             *)
(***************************************************************************)
Finished(rec) == rec.pc = "done"

\* The speech-to-text engine answered with a transcription in this run.
Transcribed(rec) == rec.answer # None

\* C1: for every finished guest run, the usage counter of the IP is written
\* (once, +1) if and only if the run reached a successful transcription; a
\* run that ends at the limit check, fails before transcription or ends with
\* the fallback transcript leaves the counter alone.
C1_QuotaIffTranscribed ==
  \A r \in Runs :
    (Finished(run[r]) /\ run[r].kind \in {"express_guest", "edge_guest"})
      => ((run[r].nQuotaInc = 1) <=> Transcribed(run[r]))

\* C2: when a run has ended, its releases equal its successful acquires (at
\* most one of each) and the temporary audio file it created no longer
\* exists, whichever way the run left extractTranscript.
C2_ReleaseOncePerAcquire ==
  \A r \in Runs :
    Finished(run[r]) => /\ run[r].nRelease = run[r].nAcquired
                        /\ r \notin files

\* A run that acquired its artifact and then failed at the engine has ended.
C2_Witness ==
  \E r \in Runs :
    /\ Finished(run[r])
    /\ run[r].nAcquired = 1 /\ run[r].nRelease = 1
    /\ run[r].nEngine = 1 /\ run[r].err # ""
    /\ r \notin files

\* C3: two guest requests of one IP that each read exactly one remaining
\* extraction for the same day never both end successfully, and the day's
\* extraction_count never exceeds the daily limit.
C3_AtMostOneOfTwoSucceeds ==
  /\ \A d \in Days : guest_usage[d] <= EdgeDailyLimit
  /\ \A r1, r2 \in Runs :
       (/\ r1 # r2
        /\ run[r1].kind = "edge_guest" /\ run[r2].kind = "edge_guest"
        /\ run[r1].usage # None /\ run[r2].usage # None
        /\ run[r1].day = run[r2].day
        /\ run[r1].usage.currentCount = EdgeDailyLimit - 1
        /\ run[r2].usage.currentCount = EdgeDailyLimit - 1)
         => ~(/\ Finished(run[r1]) /\ run[r1].resp.kind = "ok"
              /\ Finished(run[r2]) /\ run[r2].resp.kind = "ok")

\* C4: in a guest run whose probed duration exceeds the guest cap, the audio
\* download and the transcription are never invoked, and the run ends in a
\* duration error that carries the duration and the cap.
C4_DurationExceededBeforeAcquire ==
  \A r \in Runs :
    (/\ IsGuestRun(run[r])
     /\ run[r].info # None
     /\ ~run[r].info.placeholder
     /\ run[r].info.duration > GuestMaxDuration)
      => /\ run[r].nAcquireCall = 0
         /\ run[r].nEngine = 0
         /\ Finished(run[r]) => /\ run[r].resp.kind = "error"
                                /\ run[r].resp.duration = run[r].info.duration
                                /\ run[r].resp.limit = GuestMaxDuration

\* The transcription of the run failed: transcribeAudio threw.
TranscriptionFailed(rec) == rec.err # ""

\* C5: when transcription fails in a run, the caller of the orchestrator sees
\* no exception: the run returns a transcript of exactly one segment, whose
\* text is the transcript's text, states that extraction failed and quotes
\* the message of the error transcribeAudio threw.
C5_FallbackOnTranscriptionError ==
  \A r \in Runs :
    (Finished(run[r]) /\ TranscriptionFailed(run[r]))
      => /\ run[r].resp.kind = "ok"
         /\ run[r].transcript # None
         /\ Len(run[r].transcript.segments) = 1
         /\ run[r].transcript.segments[1].text = run[r].transcript.text
         /\ run[r].transcript.text[1] = "Transcript extraction failed: "
         /\ run[r].transcript.text[2] = TranslateTranscriptionError(run[r].err)

\* A run whose engine call failed has returned normally.
C5_Witness ==
  \E r \in Runs :
    /\ Finished(run[r])
    /\ run[r].nEngine = 1
    /\ run[r].err = "Connection error"
    /\ run[r].resp.kind = "ok"
    /\ run[r].transcript.fallback

\* C6: whenever a run produces the fallback (placeholder) transcript, the
\* Extraction record built for the run has status failed, never completed.
C6_FallbackRecordedFailed ==
  \A r \in Runs :
    (run[r].extraction # None /\ run[r].extraction.fallback)
      => run[r].extraction.status = "failed"

\* The probe, the acquire or the engine failed in this run, or the probed
\* duration is above the guest cap of the route.
EnvFailure(rec) ==
  \/ rec.info # None /\ (rec.info.placeholder \/ rec.info.duration > RouteGuestCap)
  \/ rec.nAcquireCall > rec.nAcquired
  \/ rec.audio # None /\ rec.audio.tooLarge
  \/ rec.nEngine > 0 /\ rec.answer = None

\* C7: a guest request with a recognized URL and quota remaining, in which
\* neither probe, acquire nor transcription failed and the duration is within
\* the cap, ends with an ok result that holds exactly the engine's segments in
\* order, and has incremented the IP's counter once.
C7_HappyGuestPath ==
  \A r \in Runs :
    (/\ run[r].kind = "express_guest"
     /\ Finished(run[r])
     /\ isValidVideoUrl(run[r].url)
     /\ run[r].usage # None /\ run[r].usage.can_extract
     /\ ~EnvFailure(run[r]))
      => /\ run[r].resp.kind = "ok"
         /\ Transcribed(run[r])
         /\ run[r].transcript.segments = run[r].answer.segments
         /\ run[r].nQuotaInc = 1

\* A rejected request: it ended directly in an error without a transcript,
\* and has read and written no quota, probed, acquired and transcribed nothing.
RejectedUntouched(rec) ==
  /\ Finished(rec)
  /\ rec.resp.kind = "error"
  /\ rec.transcript = None /\ rec.extraction = None
  /\ rec.nQuotaRead = 0 /\ rec.nQuotaInc = 0
  /\ rec.nProbe = 0 /\ rec.nAcquireCall = 0 /\ rec.nEngine = 0

\* C8: a request whose URL fails validation goes directly to an error result
\* with no fallback transcript: no quota read or increment, no probe, no
\* acquire and no transcription is performed, and the step that rejects it
\* leaves the usage table (and the temporary files) unchanged.
C8_InvalidUrlDoesNothing ==
  /\ [](\A r \in Runs :
          (run[r].kind = "express_guest" /\ ~isValidVideoUrl(run[r].url))
            => RejectedUntouched(run[r]))
  /\ [][\A r \in Runs :
          (run[r].pc = "idle" /\ run'[r].pc # "idle" /\ ~isValidVideoUrl(run'[r].url))
            => (guest_usage' = guest_usage /\ files' = files)]_vars

\* A request with a URL of another site has been answered 400.
C8_Witness ==
  \E r \in Runs :
    /\ run[r].kind = "express_guest"
    /\ run[r].url = "other"
    /\ Finished(run[r])
    /\ run[r].resp.code = 400
    /\ run[r].resp.error = "Invalid YouTube URL format"

\* C9: a guest request that finds no extraction remaining ends with the
\* limit answer (429), which carries remaining 0 and the time the daily
\* counter resets (the start of the day after the request's day), and the
\* run has probed, acquired and transcribed nothing.
C9_QuotaExceededPayload ==
  \A r \in Runs :
    (Finished(run[r]) /\ run[r].resp.code = 429)
      => /\ run[r].resp.remaining = 0
         /\ run[r].resp.reset = (run[r].day + 1) * TicksPerDay
         /\ run[r].nProbe = 0 /\ run[r].nAcquireCall = 0 /\ run[r].nEngine = 0

StatusRank(st) ==
  CASE st = "pending" -> 0
    [] st = "processing" -> 1
    [] st \in {"completed", "failed"} -> 2

\* C10: the status of an Extraction only moves forward along
\* pending -> processing -> {completed | failed}; once it is completed or
\* failed, no later step of any handler changes it.
C10_StatusOnlyForward ==
  [][\A r \in Runs :
       run[r].extraction # None
         => /\ run'[r].extraction # None
            /\ StatusRank(run'[r].extraction.status) >= StatusRank(run[r].extraction.status)
            /\ (run[r].extraction.status \in {"completed", "failed"}
                  => run'[r].extraction.status = run[r].extraction.status)]_vars

\* A completed record has gone through the refused insert and the usage write.
C10_Witness ==
  \E r \in Runs :
    /\ run[r].kind = "edge_guest"
    /\ Finished(run[r])
    /\ Transcribed(run[r])
    /\ run[r].extraction # None
    /\ run[r].extraction.status = "completed"

\* C11: every URL of a supported platform in canonical, short-link or embed
\* form (a URL that matches a platform's pattern list) is accepted, and is
\* resolved to that platform with a non-empty video id.
C11_SupportedUrlsResolved ==
  \A r \in Runs :
    (run[r].kind = "resolve" /\ Finished(run[r]) /\ PLATFORM_PATTERNS(run[r].url) # "none")
      => /\ run[r].resp.kind = "ok"
         /\ run[r].resp.platform = PLATFORM_PATTERNS(run[r].url)
         /\ run[r].resp.videoId # << >>

\* The messages of validateVideoUrl by failure kind: not a valid HTTP/HTTPS
\* URL, and no platform matched.
InvalidUrlMessages ==
  {"URL is required", "Invalid URL format", "URL must use HTTP or HTTPS protocol"}

UnsupportedPlatformMessages ==
  {"Unsupported video platform", "Invalid YouTube URL format",
   "Invalid Bilibili URL format", "Invalid Redbook URL format"}

SyntacticallyValid(id) == UrlOf(id).parses /\ UrlOf(id).protocol \in {"http:", "https:"}

\* C12: a valid HTTP/HTTPS URL that matches no platform pattern is rejected
\* with the no-platform kind, a string that is not a valid HTTP/HTTPS URL is
\* rejected with the invalid-URL kind, and neither is accepted.
C12_FailureKindsDistinguished ==
  \A r \in Runs :
    (run[r].kind = "resolve" /\ Finished(run[r]))
      => /\ (SyntacticallyValid(run[r].url) /\ PLATFORM_PATTERNS(run[r].url) = "none")
              => (run[r].resp.kind = "error"
                  /\ run[r].resp.error \in UnsupportedPlatformMessages)
         /\ ~SyntacticallyValid(run[r].url)
              => (run[r].resp.kind = "error"
                  /\ run[r].resp.error \in InvalidUrlMessages)

\* segments.map(s => s.text).join(" "): texts are sequences of words, and
\* joining with a single space is their concatenation.
RECURSIVE JoinTexts(_)
JoinTexts(segs) ==
  IF segs = << >> THEN << >> ELSE segs[1].text \o JoinTexts(Tail(segs))

\* C13: every transcript a run returns (from an engine answer with or
\* without segments, or from the fallback path) has a full text equal to its
\* segment texts joined with a single space.
C13_FullTextIsJoin ==
  \A r \in Runs :
    (Finished(run[r]) /\ run[r].transcript # None)
      => run[r].transcript.text = JoinTexts(run[r].transcript.segments)

\* C14: a transcription called with a max duration L returns exactly the
\* engine segments whose start is strictly less than L, in their order, and
\* the last retained segment ends at L at the latest.
C14_TruncatedToMaxDuration ==
  \A r \in Runs :
    (run[r].kind = "transcribe" /\ run[r].pc = "done" /\ run[r].resp.kind = "ok"
       /\ run[r].maxDuration # NoMaxDuration /\ run[r].answer.hasSegments)
      => LET L == run[r].maxDuration
             kept == SelectSeq(run[r].answer.segments, LAMBDA sg : sg.start < L)
             got == run[r].transcript.segments IN
         /\ Len(got) = Len(kept)
         /\ \A i \in 1..Len(got) :
              got[i].start = kept[i].start /\ got[i].text = kept[i].text
         /\ Len(got) > 0 => got[Len(got)].end <= L

\* C20: the speech-to-text engine is never called for an audio file that is
\* larger than 25 MB or whose extension is outside the accepted list: such a
\* call fails with the size or format error and sends no request.
C20_NoRequestForBadArtifact ==
  \A r \in Runs :
    (run[r].audio # None /\ run[r].pc # "idle"
       /\ (run[r].audio.tooLarge \/ run[r].audio.ext \notin supportedFormats))
      => /\ run[r].nEngine = 0
         /\ run[r].err \in {FileTooLargeMsg, UnsupportedFormatMsg}

\* C15: the downloader call and the transcription call are bounded, so a run
\* that has started eventually reaches its terminal result with its audio
\* file released, even when the downloader never answers.
C15_EveryRunTerminates ==
  \A r \in Runs :
    (run[r].pc # "idle") ~> (run[r].pc = "done" /\ r \notin files)

\* C16: when an extraction has succeeded, a refused insert of its record does
\* not turn the result into a failure: the caller still gets the extraction.
C16_PersistFailureKeepsSuccess ==
  \A r \in Runs :
    (run[r].kind = "edge_video" /\ run[r].pc = "done" /\ run[r].extraction # None
       /\ run[r].extraction.status = "completed")
      => run[r].resp.kind = "ok"

\* C17: on each calendar day the number of requests of the signed-in user
\* that pass the limit check never exceeds the daily limit of the user's
\* tier (5 for free, 100 for pro).
C17_PassesWithinDailyLimit ==
  \A d \in Days : account.passed[d] <= DailyLimit(account.tier)

\* hh:mm:ss,mmm of a time in milliseconds, each field zero-padded.
TimeCode(t) ==
  LET two(n) == IF n < 10 THEN <<0, n>> ELSE Digits(n)
      ms == t % 1000
      three == IF ms < 10 THEN <<0, 0, ms>> ELSE IF ms < 100 THEN <<0>> \o Digits(ms) ELSE Digits(ms)
  IN two(t \div 3600000) \o <<":">> \o two((t \div 60000) % 60) \o <<":">>
       \o two((t \div 1000) % 60) \o <<",">> \o three

\* C18: the srt export of n segments has exactly n blocks in segment order;
\* block i is numbered i, carries the time-codes of segment i's own start
\* and end, then segment i's text, and blocks are separated by an empty line.
C18_SrtBlocksMatchSegments ==
  \A r \in Runs :
    (run[r].kind = "export" /\ run[r].pc = "done")
      => LET segs == run[r].transcript.segments
             out  == run[r].output
             n    == Len(segs)
         IN /\ Len(out) = (IF n = 0 THEN 0 ELSE 4 * n - 1)
            /\ \A i \in 1..n :
                 /\ out[4 * (i - 1) + 1] = <<i>>
                 /\ out[4 * (i - 1) + 2]
                      = TimeCode(segs[i].start) \o <<" --> ">> \o TimeCode(segs[i].end)
                 /\ out[4 * (i - 1) + 3] = <<segs[i].text>>
                 /\ i < n => out[4 * i] = << >>

\* The position of a step in the order of the stages: validation, limit
\* check, acquisition (probe, availability, download), transcription,
\* finalisation, terminal result.
StepRank(pc) ==
  CASE pc = "idle"        -> 0
    [] pc = "cgu_select"  -> 1
    [] pc = "cgu_insert"  -> 2
    [] pc = "pgv_start"   -> 3
    [] pc = "evi"         -> 4
    [] pc = "et_avail"    -> 5
    [] pc = "et_acquire"  -> 6
    [] pc = "et_call"     -> 7
    [] pc = "et_engine"   -> 8
    [] pc = "et_cleanup"  -> 9
    [] pc = "done"        -> 10
    [] OTHER              -> -1

C21_FailedAcquireLeavesNoFile ==
  \A r \in Runs :
    (run[r].kind = "acquire" /\ run[r].pc = "done" /\ run[r].resp.kind = "throw")
      => \A f \in files : f[1] # r

\* C22: truncating an already truncated transcript to the same or a larger
\* limit leaves the segment sequence unchanged.
C22_TruncationIdempotent ==
  \A r \in Runs :
    (run[r].kind = "truncate" /\ run[r].pc = "done")
      => run[r].output = run[r].transcript.segments

\* A first truncation that dropped a segment and kept one, then a second
\* truncation to a larger limit.
C22_Witness ==
  \E r \in Runs :
    /\ run[r].kind = "truncate" /\ run[r].pc = "done"
    /\ Len(run[r].transcript.segments) < Len(run[r].answer.segments)
    /\ Len(run[r].transcript.segments) > 0
    /\ run[r].maxDuration2 > run[r].maxDuration

\* C23: progress reporting is fire-and-forget: a run whose progress event
\* cannot be emitted goes through the same stages as a run without a
\* listener, so no guest run ends with the error of an emission, and every
\* guest run that was let into the pipeline makes the metadata probe.
C23_ProgressNeverFailsRun ==
  \A r \in Runs :
    (IsGuestRun(run[r]) /\ run[r].pc = "done")
      => /\ run[r].resp.error # CallbackTypeError
         /\ (run[r].usage # None /\ run[r].resp.code \notin {429, 500}) => run[r].nProbe = 1

\* C25: the close or abort of one connection never removes the registration
\* of a different connection that is still open.
C25_CloseKeepsOtherRegistration ==
  [][\A sid \in SessionIds :
       LET r == progressStreams[sid] IN
       (r # NoStream /\ run'[r].pc = "open"
          /\ \E q \in Runs : q # r /\ run[q].pc # run'[q].pc
                                /\ run'[q].pc \in {"aborted", "closed"})
         => progressStreams'[sid] = r]_vars

\* C30: after completeProgress(sessionId) the session is no longer in the
\* registry; nothing is written to a stream after its 'complete' event or
\* after its connection closed; and a progress event only ever reaches the
\* stream registered under the session, so sendProgressUpdate for an
\* unregistered session changes nothing.
C30_CompletedStreamsStayQuiet ==
  [][/\ \A sid \in SessionIds :
          completeProgress(sid) => progressStreams'[sid] = NoStream
     /\ \A r \in Runs :
          /\ run[r].pc \in {"ended", "aborted", "closed"} => run'[r].output = run[r].output
          /\ (run'[r].output # run[r].output /\ run[r].pc = "open")
               => progressStreams[run[r].sessionId] = r]_vars

\* A stream that received a progress event, was completed and is no longer
\* registered.
C30_Witness ==
  \E r \in Runs :
    /\ run[r].kind = "stream" /\ run[r].pc = "ended"
    /\ run[r].output = <<"connected", "progress", "complete">>
    /\ progressStreams[run[r].sessionId] = NoStream

\* C24: whenever check_guest_usage would report can_extract = true for the
\* IP, an increment_guest_usage executed in that state returns TRUE and
\* raises the day's extraction_count by exactly 1.
C24_CheckAndIncrementAgree ==
  [][\A r \in Runs :
       LET d == Today(now)
           c == IF guest_usage[d] = NoRow THEN 0 ELSE guest_usage[d]
       IN (/\ run[r].kind = "quota" /\ run[r].pc = "pgv_start" /\ run'[r].pc = "done"
           /\ c < CheckDailyLimit)
          => /\ run'[r].answer = [returned |-> TRUE]
             /\ guest_usage'[d] = c + 1]_vars

\* C26: no usage is lost when guest runs overlap: every usage-update step
\* of a guest run raises the stored extraction_count of its day by exactly
\* 1, so that k runs reaching the step leave the count k higher, whatever
\* the interleaving of their reads and writes.
C26_NoLostUsage ==
  [][\A r \in Runs :
       (run[r].kind = "edge_guest" /\ run[r].pc = "edge_usage" /\ run'[r].pc = "done")
       => LET d      == run[r].day
              before == IF guest_usage[d] = NoRow THEN 0 ELSE guest_usage[d]
          IN guest_usage'[d] = before + 1]_vars

\* C27: the fallback never masks a policy rejection: when the backend
\* answers an extract request with 429 or 400, api.call and the guest proxy
\* surface an error to their caller and never return a success payload with
\* mock extraction data.
C27_RejectionNotMasked ==
  \A r \in Runs :
    (run[r].kind = "client" /\ run[r].pc = "done" /\ run[r].answer.status \in {429, 400})
    => run[r].resp.kind = "error"

\* C29: every export request that created a job leaves it in exactly one of
\* completed or failed when the request ends (the job's status moves only
\* processing -> completed or processing -> failed).
C29_JobEndsCompletedOrFailed ==
  \A r \in Runs :
    (run[r].kind = "export_job" /\ run[r].pc = "done" /\ run[r].job # "none")
    => run[r].job \in {"completed", "failed"}

\* C28: a failed metadata probe never produces a duration-based rejection:
\* a guest run whose probe failed, and whose video is within the guest
\* duration cap, is never rejected for its duration on the basis of the
\* placeholder duration substituted for the probe's answer.
C28_PlaceholderNeverRejects ==
  \A r \in Runs :
    (/\ IsGuestRun(run[r]) /\ Finished(run[r])
     /\ run[r].info # None /\ run[r].info.placeholder
     /\ run[r].dur <= GuestMaxDuration)
    => /\ run[r].resp.code # 400
       /\ run[r].resp.limit = NoResp.limit
       /\ run[r].transcript # FallbackTranscript(DurationMsg)

\* A guest run whose probe failed (the placeholder exceeds the route's cap)
\* went on to a successful transcription and returned its result.
C28_Witness ==
  \E r \in Runs :
    /\ run[r].kind = "lib_guest" /\ Finished(run[r])
    /\ run[r].info # None /\ run[r].info.placeholder
    /\ run[r].info.duration > RouteGuestCap
    /\ Transcribed(run[r])
    /\ run[r].resp.kind = "ok"

====
